---- MODULE Spec2Model ----
(***************************************************************************)
(* Model of pollination_dsl/dag/inputs.py: the DAG input descriptors       *)
(* (GenericInput .. PathInput), their derived properties and the           *)
(* conversion to_queenbee(name).                                           *)
(*                                                                         *)
(* One descriptor is constructed (Init) and then converted any number of   *)
(* times (to_queenbee).  Python values are abstracted to a kind and a      *)
(* payload n: the number itself for bool/int/float, the length for         *)
(* str/list/dict, so that truthiness is "n # 0" exactly as in Python.      *)
(* Strings that are transformed (the input name) are sequences of          *)
(* characters.  A value that may be None is wrapped: [none, val].          *)
(***************************************************************************)
EXTENDS Naturals, Sequences, FiniteSets

VARIABLES
    self,     \* the descriptor object: a record of its stored fields
    kwargs,   \* the keyword arguments it was constructed from (never changes)
    result    \* outcome of the latest to_queenbee call

vars == <<self, kwargs, result>>

(***************************************************************************)
(* Bounds of the explored inputs.                                          *)
(***************************************************************************)
MaxNameLen == 2
MaxAlias == 2
MaxExt == 2

(***************************************************************************)
(* Python values.                                                          *)
(***************************************************************************)
V(k, n) == [kind |-> k, n |-> n]
NoneV == V("none", 0)

None_ == [none |-> TRUE, val |-> <<>>]
Some(x) == [none |-> FALSE, val |-> x]

\* bool(v): None is falsy, a number is falsy when 0, a str/list/dict when empty
Truthy(v) == v.kind # "none" /\ v.n # 0

\* `x or {}` / `if x:` on an optional dict
TruthyDict(o) == ~o.none /\ DOMAIN o.val # {}

EmptyDict == <<>>

\* d[k] = v on a dict
SetItemKeep(d, k, v) ==
    [x \in DOMAIN d \cup {k} |-> IF x \in DOMAIN d THEN d[x] ELSE v]

SetItem(d, k, v) ==
    [x \in DOMAIN d \cup {k} |-> IF x = k THEN v ELSE d[x]]

\* sequences over S of length 0..n
RECURSIVE SeqsUpTo(_, _)
SeqsUpTo(S, n) ==
    IF n = 0 THEN {<<>>}
    ELSE LET shorter == SeqsUpTo(S, n - 1)
         IN  shorter \cup {Append(s, x) : s \in shorter, x \in S}

(***************************************************************************)
(* The class hierarchy.                                                    *)
(***************************************************************************)
Classes ==
    {"GenericInput", "StringInput", "IntegerInput", "NumberInput",
     "BooleanInput", "DictInput", "ListInput", "FolderInput", "FileInput",
     "PathInput"}

\* the base class named in each class statement
Base(cls) ==
    CASE cls = "GenericInput" -> "_InputBase"
      [] cls = "StringInput" -> "GenericInput"
      [] cls \in {"IntegerInput", "NumberInput", "BooleanInput", "DictInput",
                  "ListInput", "FolderInput"} -> "StringInput"
      [] cls = "FileInput" -> "FolderInput"
      [] cls = "PathInput" -> "FileInput"
      [] OTHER -> "BaseModel"

\* the fields each class body declares itself
OwnFieldsItemsOnString(cls) ==
    CASE cls = "_InputBase" ->
            {"annotations", "description", "default", "default_local", "spec",
             "alias", "optional"}
      [] cls = "StringInput" -> {"default", "default_local", "items_type"}
      [] cls \in {"IntegerInput", "NumberInput", "BooleanInput", "DictInput",
                  "ListInput"} ->
            {"default", "default_local"}
      [] cls = "FileInput" -> {"extensions"}
      [] OTHER -> {}

OwnFieldsExtOnFolder(cls) ==
    CASE cls = "_InputBase" ->
            {"annotations", "description", "default", "default_local", "spec",
             "alias", "optional"}
      [] cls \in {"StringInput", "IntegerInput", "NumberInput", "BooleanInput",
                  "DictInput"} ->
            {"default", "default_local"}
      [] cls = "ListInput" -> {"default", "default_local", "items_type"}
      [] cls = "FolderInput" -> {"extensions"}
      [] OTHER -> {}

OwnFields(cls) ==
    CASE cls = "_InputBase" ->
            {"annotations", "description", "default", "default_local", "spec",
             "alias", "optional"}
      [] cls \in {"StringInput", "IntegerInput", "NumberInput", "BooleanInput",
                  "DictInput"} ->
            {"default", "default_local"}
      [] cls = "ListInput" -> {"default", "default_local", "items_type"}
      [] cls = "FileInput" -> {"extensions"}
      [] OTHER -> {}

\* all fields of a class: its own and the inherited ones
RECURSIVE Fields(_)
Fields(cls) ==
    IF cls = "BaseModel" THEN {} ELSE OwnFields(cls) \cup Fields(Base(cls))

\* the type a class body declares for `default` / `default_local`
OwnDefaultType(cls) ==
    CASE cls = "_InputBase" -> "any"
      [] cls = "StringInput" -> "str"
      [] cls = "IntegerInput" -> "int"
      [] cls = "NumberInput" -> "float"
      [] cls = "BooleanInput" -> "bool"
      [] cls = "DictInput" -> "dict"
      [] cls = "ListInput" -> "list"
      [] OTHER -> "inherit"

RECURSIVE DefaultType(_)
DefaultType(cls) ==
    IF OwnDefaultType(cls) # "inherit" THEN OwnDefaultType(cls)
    ELSE DefaultType(Base(cls))

\* ItemType.String, the default of ListInput.items_type
ItemTypeDefault == "String"

\* hasattr(self, field)
HasAttr(obj, field) == field \in DOMAIN obj

(***************************************************************************)
(* Construction.                                                           *)
(***************************************************************************)
\* the `alias` validator, run always, also on the field default None
empty_list_alias_identity(v) == v

empty_list_alias(v) == IF ~v.none THEN v ELSE Some(<<>>)

\* an argument that was not passed takes the field default
Arg(kw, field, dflt) == IF field \in DOMAIN kw THEN kw[field] ELSE dflt

Construct(kw) ==
    [f \in Fields(kw.cls) \cup {"cls"} |->
        CASE f = "cls" -> kw.cls
          [] f = "annotations" -> Arg(kw, f, None_)
          [] f = "description" -> Arg(kw, f, NoneV)
          [] f = "default" -> Arg(kw, f, NoneV)
          [] f = "default_local" -> Arg(kw, f, NoneV)
          [] f = "spec" -> Arg(kw, f, None_)
          [] f = "alias" -> empty_list_alias(Arg(kw, f, None_))
          [] f = "optional" -> Arg(kw, f, FALSE)
          [] f = "extensions" -> Arg(kw, f, None_)
          [] f = "items_type" -> Arg(kw, f, ItemTypeDefault)]

(***************************************************************************)
(* Derived properties.                                                     *)
(***************************************************************************)
required_truthy(obj) ==
    IF obj.optional THEN FALSE
    ELSE IF Truthy(obj.default) THEN FALSE
    ELSE TRUE

required(obj) ==
    IF obj.optional THEN FALSE
    ELSE IF obj.default # NoneV THEN FALSE
    ELSE TRUE

\* the classes whose body defines the property is_artifact, and what it returns
DefinesIsArtifact(cls) == cls \in {"_InputBase", "FolderInput"}

OwnIsArtifact(cls) == cls = "FolderInput"

RECURSIVE IsArtifactOf(_)
IsArtifactOf(cls) ==
    IF DefinesIsArtifact(cls) THEN OwnIsArtifact(cls)
    ELSE IsArtifactOf(Base(cls))

is_artifact(obj) == IsArtifactOf(obj.cls)

\* what the class body's own reference_type returns ("inherit": none defined)
OwnReferenceTypeNoPath(cls) ==
    CASE cls = "_InputBase" -> "InputReference"
      [] cls = "FolderInput" -> "InputFolderReference"
      [] cls = "FileInput" -> "InputFileReference"
      [] OTHER -> "inherit"

OwnReferenceType(cls) ==
    CASE cls = "_InputBase" -> "InputReference"
      [] cls = "FolderInput" -> "InputFolderReference"
      [] cls = "FileInput" -> "InputFileReference"
      [] cls = "PathInput" -> "InputPathReference"
      [] OTHER -> "inherit"

RECURSIVE ReferenceTypeOf(_)
ReferenceTypeOf(cls) ==
    IF OwnReferenceType(cls) # "inherit" THEN OwnReferenceType(cls)
    ELSE ReferenceTypeOf(Base(cls))

reference_type(obj) == ReferenceTypeOf(obj.cls)

(***************************************************************************)
(* to_queenbee.                                                            *)
(***************************************************************************)
inputs_mapper(cls) ==
    CASE cls = "GenericInput" -> "DAGGenericInput"
      [] cls = "StringInput" -> "DAGStringInput"
      [] cls = "IntegerInput" -> "DAGIntegerInput"
      [] cls = "NumberInput" -> "DAGNumberInput"
      [] cls = "BooleanInput" -> "DAGBooleanInput"
      [] cls = "FolderInput" -> "DAGFolderInput"
      [] cls = "FileInput" -> "DAGFileInput"
      [] cls = "PathInput" -> "DAGPathInput"
      [] cls = "DictInput" -> "DAGJSONObjectInput"
      [] cls = "ListInput" -> "DAGArrayInput"

DefaultLocalKey == "__default_local__"

\* the local `annotations` after lines 62-64: the dict it holds and whether it
\* is the very object stored in self.annotations (and not a fresh {})
LocalAnnotationsSetDefault(obj) ==
    LET aliased == TruthyDict(obj.annotations)
        d == IF aliased THEN obj.annotations.val ELSE EmptyDict
    IN  [aliased |-> aliased,
         d |-> IF Truthy(obj.default_local)
               THEN SetItemKeep(d, DefaultLocalKey, obj.default_local)
               ELSE d]

LocalAnnotations(obj) ==
    LET aliased == TruthyDict(obj.annotations)
        d == IF aliased THEN obj.annotations.val ELSE EmptyDict
    IN  [aliased |-> aliased,
         d |-> IF Truthy(obj.default_local)
               THEN SetItem(d, DefaultLocalKey, obj.default_local)
               ELSE d]

\* name.replace('_', '-'), and the same with count=1
RECURSIVE StrReplace(_, _, _)
StrReplace(s, old, new) ==
    IF s = <<>> THEN <<>>
    ELSE IF Head(s) = old THEN <<new>> \o StrReplace(Tail(s), old, new)
    ELSE <<Head(s)>> \o StrReplace(Tail(s), old, new)

RECURSIVE StrReplaceFirst(_, _, _)
StrReplaceFirst(s, old, new) ==
    IF s = <<>> THEN <<>>
    ELSE IF Head(s) = old THEN <<new>> \o Tail(s)
    ELSE <<Head(s)>> \o StrReplaceFirst(Tail(s), old, new)

NormalizeNameFirst(name) == StrReplaceFirst(name, "_", "-")

NormalizeName(name) == StrReplace(name, "_", "-")

\* al.to_queenbee().dict(): the alias entry as the plain mapping of its
\* queenbee counterpart
AliasToQueenbeeDict(al) == [type |-> "DAGAlias", platform |-> al]

\* the dictionary `data` handed to the schema constructor
DataKeys(obj) ==
    {"required", "name", "default", "description", "annotations", "spec",
     "alias"}
    \cup (IF HasAttr(obj, "extensions") THEN {"extensions"} ELSE {})
    \cup (IF HasAttr(obj, "items_type") THEN {"items_type"} ELSE {})

Data(obj, name) ==
    [k \in DataKeys(obj) |->
        CASE k = "required" -> required(obj)
          [] k = "name" -> NormalizeName(name)
          [] k = "default" -> obj.default
          [] k = "description" -> obj.description
          [] k = "annotations" -> LocalAnnotations(obj).d
          [] k = "spec" -> obj.spec
          [] k = "alias" ->
                [i \in 1..Len(obj.alias.val) |->
                    AliasToQueenbeeDict(obj.alias.val[i])]
          [] k = "extensions" -> obj.extensions
          [] k = "items_type" -> obj.items_type]

\* the descriptor after a call: line 64 writes into the dict that
\* self.annotations holds whenever `self.annotations or {}` returned it
SelfAfterConsume(obj) ==
    LET a == LocalAnnotations(obj)
    IN  IF a.aliased
        THEN [obj EXCEPT !.annotations = Some(a.d), !.default_local = NoneV]
        ELSE [obj EXCEPT !.default_local = NoneV]

SelfAfter(obj) ==
    LET a == LocalAnnotations(obj)
    IN  IF a.aliased THEN [obj EXCEPT !.annotations = Some(a.d)] ELSE obj

NoCall == [status |-> "none", repeated |-> FALSE]

\* func.parse_obj(data) belongs to the schema library: it returns the record
\* built from `data` or raises its validation error, which is not caught
to_queenbee(name) ==
    /\ self' = SelfAfter(self)
    /\ \E ok \in BOOLEAN :
          result' =
             IF ok
             THEN [status |-> "record",
                   repeated |-> result.status = "record" /\ result.arg = name,
                   arg |-> name,
                   schema |-> inputs_mapper(self.cls),
                   data |-> Data(self, name)]
             ELSE [status |-> "raised", repeated |-> FALSE]
    /\ UNCHANGED kwargs

(***************************************************************************)
(* Explored inputs.                                                        *)
(***************************************************************************)
Payloads == {0, 1}

AnyKinds == {"bool", "list"}

\* values conforming to the declared type of `default` / `default_local`
KindsOfType(t) == IF t = "any" THEN AnyKinds ELSE {t}

ValuesOfType(t) ==
    {NoneV} \cup {V(k, n) : k \in KindsOfType(t), n \in Payloads}

AnnotationValue == V("str", 2)

AnnotationKeys == {"note", DefaultLocalKey}

AnnotationArgs ==
    {None_} \cup
    {Some([k \in ks |-> AnnotationValue]) : ks \in SUBSET AnnotationKeys}

DescriptionArgs == {NoneV, V("str", 1)}

SpecArgs == {None_, Some([type |-> V("str", 1)])}

AliasPlatforms == {"p1", "p2"}

Omitted == [given |-> FALSE, v |-> None_]
OmittedItemType == [given |-> FALSE, v |-> ""]
Given(x) == [given |-> TRUE, v |-> x]

AliasArgs ==
    {Omitted, Given(None_)} \cup
    {Given(Some(s)) : s \in SeqsUpTo(AliasPlatforms, MaxAlias)}

Extensions == {"e1", "e2"}

ExtensionArgs ==
    {None_} \cup {Some(s) : s \in SeqsUpTo(Extensions, MaxExt)}

ItemTypes == {"String", "Integer"}

NameChars == {"_", "a"}

Names == SeqsUpTo(NameChars, MaxNameLen) \ {<<>>}

Merge(a, b) ==
    [x \in DOMAIN a \cup DOMAIN b |-> IF x \in DOMAIN b THEN b[x] ELSE a[x]]

OptField(field, g) == IF g.given THEN [x \in {field} |-> g.v] ELSE <<>>

\* every combination of the fields the conversion computes with
KwValue(cls) ==
    {[cls |-> cls, optional |-> o, default |-> d, default_local |-> dl,
      annotations |-> an] :
        o \in BOOLEAN, d \in ValuesOfType(DefaultType(cls)),
        dl \in ValuesOfType(DefaultType(cls)), an \in AnnotationArgs}

\* every combination of the fields the conversion passes through, on a
\* descriptor with nothing else given and on one whose conversion writes
KwCores(cls) ==
    {[cls |-> cls]} \cup
    {[cls |-> cls, default_local |-> V(k, 1),
      annotations |-> Some([x \in {"note"} |-> AnnotationValue])] :
        k \in KindsOfType(DefaultType(cls))}

KwShape(cls) ==
    {Merge(Merge(Merge(Merge(core, [description |-> de, spec |-> sp]),
                       OptField("alias", al)),
                 OptField("extensions", ex)),
           OptField("items_type", it)) :
        core \in KwCores(cls), de \in DescriptionArgs, sp \in SpecArgs,
        al \in AliasArgs,
        ex \in (IF "extensions" \in Fields(cls)
                THEN {Given(e) : e \in ExtensionArgs} ELSE {Omitted}),
        it \in (IF "items_type" \in Fields(cls)
                THEN {OmittedItemType} \cup {Given(t) : t \in ItemTypes}
                ELSE {OmittedItemType})}

Kwargs == UNION {KwValue(cls) \cup KwShape(cls) : cls \in Classes}

Init ==
    /\ kwargs \in Kwargs
    /\ self = Construct(kwargs)
    /\ result = NoCall

Next == \E name \in Names : to_queenbee(name)

Spec == Init /\ [][Next]_vars

(***************************************************************************)
(* Properties.                                                             *)
(***************************************************************************)
Converted == result.status = "record"

\* the descriptor as it was right after construction
Constructed == Construct(kwargs)

\* C1: for every variant, `required` (the property, and the record's field)
\* is true exactly when `optional` is false and `default` is None; a default
\* that is set but falsy (False, 0, "", empty collection) makes it false.
C1_RequiredIsPresenceCheck ==
    /\ required(self) <=> (~self.optional /\ self.default.kind = "none")
    /\ Converted =>
          (result.data.required <=>
              (~self.optional /\ self.default.kind = "none"))

C1_Witness ==
    /\ Converted
    /\ ~self.optional
    /\ self.default.kind # "none"
    /\ ~Truthy(self.default)
    /\ ~result.data.required

\* C2 as stated: the record's annotations hold __default_local__ with the
\* value of default_local when that is truthy, and do not hold the key when
\* default_local is None, whatever the descriptor's annotations are.
C2_KeyAbsentWhenUnset ==
    Converted =>
        /\ Truthy(self.default_local) =>
              /\ DefaultLocalKey \in DOMAIN result.data.annotations
              /\ result.data.annotations[DefaultLocalKey] = self.default_local
        /\ self.default_local = NoneV =>
              DefaultLocalKey \notin DOMAIN result.data.annotations

\* C2 amended: with default_local truthy the record's annotations hold
\* __default_local__ with exactly that value (overwriting an entry the
\* descriptor already had); with default_local None they are the descriptor's
\* own annotations (empty when it has none), so the key is there exactly when
\* the descriptor's annotations hold it, with the descriptor's value.
C2_KeyFollowsDefaultLocal ==
    Converted =>
        /\ Truthy(self.default_local) =>
              /\ DefaultLocalKey \in DOMAIN result.data.annotations
              /\ result.data.annotations[DefaultLocalKey] = self.default_local
        /\ self.default_local = NoneV =>
              result.data.annotations =
                 (IF Constructed.annotations.none THEN EmptyDict
                  ELSE Constructed.annotations.val)

C2_Witness ==
    /\ Converted
    /\ Truthy(self.default_local)
    /\ ~Constructed.annotations.none
    /\ DefaultLocalKey \in DOMAIN Constructed.annotations.val
    /\ Constructed.annotations.val[DefaultLocalKey] # self.default_local
    /\ result.data.annotations[DefaultLocalKey] = self.default_local

\* C3: to_queenbee leaves every stored field of the descriptor as it was
\* constructed.
C3_NoSideEffect == self = Constructed

\* C4: every record a call returns equals the record the first call, on the
\* descriptor as constructed, returns for that name.
C4_Idempotent ==
    Converted =>
        /\ result.data = Data(Constructed, result.arg)
        /\ result.schema = inputs_mapper(Constructed.cls)

C4_Witness ==
    /\ Converted
    /\ result.repeated
    /\ self # Constructed

\* C5: is_artifact and reference_type follow the dispatch table, for any
\* field values, so reference_type differs from InputReference exactly when
\* is_artifact is true.
C5_DispatchTable ==
    /\ is_artifact(self) <=>
          self.cls \in {"FolderInput", "FileInput", "PathInput"}
    /\ reference_type(self) =
          (CASE self.cls = "FolderInput" -> "InputFolderReference"
             [] self.cls = "FileInput" -> "InputFileReference"
             [] self.cls = "PathInput" -> "InputPathReference"
             [] OTHER -> "InputReference")
    /\ reference_type(self) # "InputReference" <=> is_artifact(self)

C5_Witness ==
    /\ self.cls = "PathInput"
    /\ is_artifact(self)
    /\ reference_type(self) = "InputPathReference"

\* C6: the record of a List descriptor has items_type, equal to the
\* descriptor's (String when none was given); no other variant's record has
\* the field.
C6_ItemsTypeOnlyForList ==
    Converted =>
        IF self.cls = "ListInput"
        THEN /\ "items_type" \in DOMAIN result.data
             /\ result.data.items_type = self.items_type
             /\ self.items_type =
                   (IF "items_type" \in DOMAIN kwargs THEN kwargs.items_type
                    ELSE "String")
        ELSE "items_type" \notin DOMAIN result.data

C6_Witness ==
    /\ Converted
    /\ self.cls = "ListInput"
    /\ "items_type" \notin DOMAIN kwargs
    /\ result.data.items_type = "String"

\* C7: the record of a File or Path descriptor whose extensions are set has
\* extensions, equal to the descriptor's in the same order; the records of
\* the eight other variants have no such field.
C7_ExtensionsOnlyForFileAndPath ==
    Converted =>
        IF self.cls \in {"FileInput", "PathInput"}
        THEN ~self.extensions.none =>
                /\ "extensions" \in DOMAIN result.data
                /\ result.data.extensions = self.extensions
                /\ self.extensions = kwargs.extensions
        ELSE "extensions" \notin DOMAIN result.data

C7_Witness ==
    /\ Converted
    /\ self.cls = "PathInput"
    /\ ~self.extensions.none
    /\ result.data.extensions.val = <<"e2", "e1">>

\* C8: alias is always a sequence: empty when omitted or None at
\* construction, the supplied sequence otherwise; a record carries one
\* converted alias per entry, in the same order.
C8_AliasNeverNone ==
    /\ ~self.alias.none
    /\ self.alias.val =
          (IF "alias" \in DOMAIN kwargs /\ ~kwargs.alias.none
           THEN kwargs.alias.val ELSE <<>>)
    /\ Converted =>
          /\ Len(result.data.alias) = Len(self.alias.val)
          /\ \A i \in 1..Len(self.alias.val) :
                result.data.alias[i].platform = self.alias.val[i]

C8_Witness ==
    /\ Converted
    /\ "alias" \notin DOMAIN kwargs
    /\ self.alias = Some(<<>>)
    /\ result.data.alias = <<>>

\* C9: the record's name is the given name with every underscore replaced
\* by a hyphen and every other character unchanged in place.
C9_NameUnderscoresToHyphens ==
    Converted =>
        /\ Len(result.data.name) = Len(result.arg)
        /\ \A i \in 1..Len(result.arg) :
              result.data.name[i] =
                 (IF result.arg[i] = "_" THEN "-" ELSE result.arg[i])

C9_Witness ==
    /\ Converted
    /\ result.arg = <<"_", "_">>
    /\ result.data.name = <<"-", "-">>

====
